---- MODULE Spec2Model ----
(***************************************************************************)
(* Model of the mock industrial control system of                          *)
(* src/opcua-local-server/opcua_local_server.py.                           *)
(*                                                                         *)
(* Numbers.  The program computes with Python floats.  The model keeps     *)
(* every float as an integer number of thousandths (25.0 is 25000), and    *)
(* total_production as an integer number of 1/3600 thousandths, so that    *)
(* the accumulator's "+= production_rate / 3600.0" is the exact integer    *)
(* step "+ production_rate".  The inputs (rates, noise draws) are chosen   *)
(* so that every division of the model is exact.                           *)
(*                                                                         *)
(* Threads.  simulate_process runs on its own thread; the OPC UA server    *)
(* runs the method callbacks and the clients' node writes on other         *)
(* threads.  The loop is modelled phase by phase (pc), the drain cell by   *)
(* cell with the read (get_value) and the act-and-clear (set_value) of a   *)
(* cell as separate steps, and a callback or a client write may happen     *)
(* between any two steps of the loop.                                      *)
(***************************************************************************)
EXTENDS Integers, FiniteSets, Sequences, TLC

VARIABLES
    system_state,   \* IndustrialControlSystem.system_state (ProcessState)
    nodes,          \* value of every OPC UA variable node of self.nodes
    running,        \* IndustrialControlSystem.running
    pc,             \* position of the simulation thread
    start_cmd,      \* the local start_cmd of _process_commands
    ticks,          \* iterations of the loop started so far
    requests,       \* client requests (method calls, node writes) served so far
    owed,           \* per command cell: idle -> non-idle writes not yet executed
    held            \* per untouched actuator: its cell's value when the tick began

vars == <<system_state, nodes, running, pc, start_cmd, ticks, requests, owed, held>>

\* ---------------------------------------------------------------- bounds
MaxTicks == 2
MaxRequests == 3

\* ------------------------------------------------------------- constants
Min(a, b) == IF a < b THEN a ELSE b
Max(a, b) == IF a > b THEN a ELSE b

CommandKeys == {"start_production_command", "stop_production_command",
                "emergency_stop_command", "reset_system_command"}

\* the actuators that no command branch, callback or interlock assigns
UntouchedActuators == {"valve_position"}

\* __init__: the initial system_state
InitialState ==
    [temperature |-> 25000, pressure |-> 1013250, flow_rate |-> 150000,
     tank_level |-> 75000, vibration |-> 500, ph_level |-> 7200,
     humidity |-> 45000, motor_speed |-> 1500000,
     pump_enabled |-> FALSE, valve_position |-> 50000, heater_power |-> 0,
     fan_speed |-> 0, conveyor_speed |-> 0, alarm_active |-> FALSE,
     system_mode |-> "MANUAL", emergency_stop |-> FALSE,
     production_rate |-> 0, total_production |-> 0]

StateKeys == DOMAIN InitialState

\* setup_address_space: one node per system_state key, created with the
\* key's initial value, and the four command nodes created idle
InitialNodes ==
    [k \in StateKeys \cup CommandKeys |->
        IF k \in StateKeys THEN InitialState[k]
        ELSE IF k = "start_production_command" THEN 0 ELSE FALSE]

\* the idle value of a command cell
Idle(k) == IF k = "start_production_command" THEN 0 ELSE FALSE

\* ------------------------------------------------------ method callbacks
\* args is the tuple of the call's arguments: <<>> or <<rate>>
\* variant: the callback without the cap of the conveyor speed at 100.0
start_production_callback_uncapped(s, args) ==
    LET rate == IF Len(args) > 0 THEN args[1] ELSE 10000
    IN  [s EXCEPT !.production_rate = rate,
                  !.system_mode = "AUTO",
                  !.pump_enabled = TRUE,
                  !.conveyor_speed = rate * 2]

start_production_callback(s, args) ==
    LET rate == IF Len(args) > 0 THEN args[1] ELSE 10000
    IN  [s EXCEPT !.production_rate = rate,
                  !.system_mode = "AUTO",
                  !.pump_enabled = TRUE,
                  !.conveyor_speed = Min(rate * 2, 100000)]

\* variant: the stop that leaves the pump running
stop_production_callback_pump_on(s) ==
    [s EXCEPT !.production_rate = 0,
              !.system_mode = "MANUAL",
              !.conveyor_speed = 0]

stop_production_callback(s) ==
    [s EXCEPT !.production_rate = 0,
              !.system_mode = "MANUAL",
              !.pump_enabled = FALSE,
              !.conveyor_speed = 0]

emergency_stop_callback(s) ==
    [s EXCEPT !.emergency_stop = TRUE,
              !.system_mode = "MAINTENANCE",
              !.production_rate = 0,
              !.pump_enabled = FALSE,
              !.conveyor_speed = 0,
              !.heater_power = 0,
              !.fan_speed = 0,
              !.alarm_active = TRUE]

\* variant: a reset that also stops production, as a stop does
reset_system_callback_stops_production(s) ==
    [s EXCEPT !.emergency_stop = FALSE,
              !.system_mode = "MANUAL",
              !.alarm_active = FALSE,
              !.total_production = 0,
              !.production_rate = 0,
              !.pump_enabled = FALSE,
              !.conveyor_speed = 0]

\* variant: the reset without its total_production assignment
reset_system_callback_keeps_total(s) ==
    [s EXCEPT !.emergency_stop = FALSE,
              !.system_mode = "MANUAL",
              !.alarm_active = FALSE]

reset_system_callback(s) ==
    [s EXCEPT !.emergency_stop = FALSE,
              !.system_mode = "MANUAL",
              !.alarm_active = FALSE,
              !.total_production = 0]

\* variant: the calibration the comment at line 266 speaks of is carried out, a
\* small offset on the named sensor
calibrate_sensors_callback_offsets(s, args) ==
    LET sensor_name == IF Len(args) > 0 THEN args[1] ELSE "unknown"
    IN  IF sensor_name \in DOMAIN s
        THEN [s EXCEPT ![sensor_name] = @ + 100]
        ELSE s

calibrate_sensors_callback(s, args) == s

\* ------------------------------------------------- _process_commands
\* The four branches of the drain, each as the assignments it makes to
\* system_state once its cell was read non-idle.
process_start_command(s, cmd) ==
    LET rate == cmd
    IN  [s EXCEPT !.production_rate = rate,
                  !.system_mode = "AUTO",
                  !.pump_enabled = TRUE,
                  !.conveyor_speed = Min(rate * 2, 100000)]

process_stop_command(s) ==
    [s EXCEPT !.production_rate = 0,
              !.system_mode = "MANUAL",
              !.pump_enabled = FALSE,
              !.conveyor_speed = 0]

\* variant: the emergency branch without its alarm_active assignment
process_emergency_command_silent(s) ==
    [s EXCEPT !.emergency_stop = TRUE,
              !.system_mode = "MAINTENANCE",
              !.production_rate = 0,
              !.pump_enabled = FALSE,
              !.conveyor_speed = 0,
              !.heater_power = 0,
              !.fan_speed = 0]

process_emergency_command(s) ==
    [s EXCEPT !.emergency_stop = TRUE,
              !.system_mode = "MAINTENANCE",
              !.production_rate = 0,
              !.pump_enabled = FALSE,
              !.conveyor_speed = 0,
              !.heater_power = 0,
              !.fan_speed = 0,
              !.alarm_active = TRUE]

process_reset_command(s) ==
    [s EXCEPT !.emergency_stop = FALSE,
              !.system_mode = "MANUAL",
              !.alarm_active = FALSE,
              !.total_production = 0]

\* the tests of the four branches: "if start_cmd > 0", "if stop_cmd", ...
StartRequested(v) == v > 0
FlagRequested(v) == v = TRUE

\* ------------------------------------------------------ _update_sensors
\* random.uniform(lo, hi): the draws the model takes.  Both ends of the
\* range for tank_level, whose draws add up from tick to tick and which an
\* alarm condition reads; the centre of the range for the other sensors.
Uniform(lo, hi) == {lo, hi}
Centre(lo, hi) == {(lo + hi) \div 2}

\* the draws of one tick, one per random.uniform call that is executed
NoiseDraws(s) ==
    [temperature : Centre(-2000, 2000),
     pressure    : Centre(-5000, 5000),
     flow_rate   : Centre(-10000, 10000),
     tank_level  : Uniform(-500, 500),
     vibration   : Centre(-100, 100),
     ph_level    : Centre(-50, 50),
     humidity    : Centre(-3000, 3000),
     motor_speed : IF s.production_rate > 0 THEN Centre(-50000, 50000)
                   ELSE Centre(-10000, 10000)]

_update_sensors(s, n) ==
    LET base_temp == 25000 + (s.heater_power * 5) \div 10
        temperature == base_temp + n.temperature
        base_pressure ==
            1013250 + (IF s.pump_enabled THEN 50000 ELSE 0)
              - ((s.valve_position - 50000) * 5) \div 10
        pressure == base_pressure + n.pressure
        base_flow == IF s.pump_enabled THEN (150 * s.valve_position) \div 100
                     ELSE 0
        flow_rate == Max(0, base_flow + n.flow_rate)
        level_change == (flow_rate - s.production_rate) \div 100
        tank_level ==
            Max(0, Min(100000, s.tank_level + level_change + n.tank_level))
        \* the vibration reads the motor speed of the previous tick
        base_vibration ==
            (s.motor_speed * 3) \div 15000 + (s.conveyor_speed * 2) \div 1000
        vibration == base_vibration + n.vibration
        ph_level == Max(6000, Min(8000, s.ph_level + n.ph_level))
        base_humidity == 45000 - (temperature - 25000) * 2
        humidity == Max(20000, Min(80000, base_humidity + n.humidity))
        motor_speed ==
            IF s.production_rate > 0
            THEN 1500000 + s.production_rate * 10 + n.motor_speed
            ELSE n.motor_speed
    IN  [s EXCEPT !.temperature = temperature,
                  !.pressure = pressure,
                  !.flow_rate = flow_rate,
                  !.tank_level = tank_level,
                  !.vibration = vibration,
                  !.ph_level = ph_level,
                  !.humidity = humidity,
                  !.motor_speed = motor_speed]

\* --------------------------------------------- _process_actuator_effects
AlarmCondition(s) ==
    \/ s.temperature > 80000
    \/ s.pressure > 1200000
    \/ s.tank_level < 10000
    \/ s.vibration > 2000

\* variant: a hard trip that fires at room temperature
TripCondition_low(s) ==
    \/ s.temperature > 20000
    \/ s.pressure > 1300000

TripCondition(s) ==
    \/ s.temperature > 100000
    \/ s.pressure > 1300000

\* variant: the interlock clearing the alarm when no condition holds
_process_actuator_effects_auto_clear(s) ==
    LET a == [s EXCEPT !.alarm_active = AlarmCondition(s)]
    IN  IF TripCondition(a)
        THEN [a EXCEPT !.emergency_stop = TRUE, !.system_mode = "MAINTENANCE"]
        ELSE a

\* variant: the interlock without its hard trip
_process_actuator_effects_alarm_only(s) ==
    IF AlarmCondition(s) THEN [s EXCEPT !.alarm_active = TRUE] ELSE s

_process_actuator_effects(s) ==
    LET a == IF AlarmCondition(s) THEN [s EXCEPT !.alarm_active = TRUE] ELSE s
    IN  IF TripCondition(a)
        THEN [a EXCEPT !.emergency_stop = TRUE, !.system_mode = "MAINTENANCE"]
        ELSE a

\* ---------------------------------------------------- _update_production
\* variant: the accumulator without its "production_rate > 0" test
_update_production_any_rate(s) ==
    IF /\ s.system_mode = "AUTO"
       /\ ~s.emergency_stop
    THEN [s EXCEPT !.total_production = s.total_production + s.production_rate]
    ELSE s

\* variant: the accumulator without its "not emergency_stop" test
_update_production_despite_stop(s) ==
    IF /\ s.system_mode = "AUTO"
       /\ s.production_rate > 0
    THEN [s EXCEPT !.total_production = s.total_production + s.production_rate]
    ELSE s

_update_production(s) ==
    IF /\ s.system_mode = "AUTO"
       /\ ~s.emergency_stop
       /\ s.production_rate > 0
    THEN [s EXCEPT !.total_production = s.total_production + s.production_rate]
    ELSE s

\* --------------------------------------------------- _update_opcua_nodes
\* variant: an export that goes over every node and puts the command nodes
\* back to idle
_update_opcua_nodes_all_nodes(s, nd) ==
    [k \in DOMAIN nd |-> IF k \in DOMAIN s THEN s[k] ELSE Idle(k)]

\* every node whose key is a key of system_state receives the state's value;
\* the command nodes are keys of self.nodes only and are skipped
_update_opcua_nodes(s, nd) ==
    [k \in DOMAIN nd |-> IF k \in DOMAIN s THEN s[k] ELSE nd[k]]

\* ------------------------------------------------------------- the inputs
\* argument tuples of StartProduction calls: a negative rate, the rate 0, a
\* rate (a call without a rate is a call with the rate 10.0)
StartArgs == {<<-5000>>, <<0>>, <<25000>>}

\* nodes created with set_writable(True), and the values clients write; for
\* the start command: idle, a negative value, and a rate large enough to
\* empty the tank and to shake the motor
WritableKeys ==
    {"pump_enabled", "valve_position", "heater_power", "fan_speed",
     "conveyor_speed", "alarm_active", "system_mode", "emergency_stop"}
      \cup CommandKeys

WriteValues(k) ==
    CASE k = "start_production_command" -> {0, -5000, 8000000}
      [] k \in CommandKeys \ {"start_production_command"} -> BOOLEAN
      [] k = "pump_enabled" -> {TRUE}
      [] k = "valve_position" -> {75000}
      [] k = "heater_power" -> {30000}
      [] k = "fan_speed" -> {40000}
      [] k = "conveyor_speed" -> {20000}
      [] k = "alarm_active" -> {TRUE}
      [] k = "system_mode" -> {"AUTO"}
      [] k = "emergency_stop" -> {TRUE}

\* ------------------------------------------------------------------ Init
Init ==
    /\ system_state = InitialState
    /\ nodes = InitialNodes
    /\ running = FALSE
    /\ pc = "created"
    /\ start_cmd = 0
    /\ ticks = 0
    /\ requests = 0
    /\ owed = [k \in CommandKeys |-> 0]
    /\ held = [k \in UntouchedActuators |-> InitialNodes[k]]

\* --------------------------------------------------- main: start and stop
\* start_simulation() followed by the start of the simulation thread
StartSimulation ==
    /\ pc = "created"
    /\ running' = TRUE
    /\ pc' = "loop"
    /\ UNCHANGED <<system_state, nodes, start_cmd, ticks, requests, owed, held>>

\* stop_simulation() on KeyboardInterrupt
StopSimulation ==
    /\ running
    /\ running' = FALSE
    /\ UNCHANGED <<system_state, nodes, pc, start_cmd, ticks, requests, owed, held>>

\* ------------------------------------------------------ simulate_process
\* variant: a loop that starts its next iteration whatever the flag
LoopEnter_whatever_flag ==
    /\ pc = "loop"
    /\ ticks < MaxTicks
    /\ ticks' = ticks + 1
    /\ pc' = "cmd_start"
    /\ held' = [k \in UntouchedActuators |-> nodes[k]]
    /\ UNCHANGED <<system_state, nodes, running, start_cmd, requests, owed>>

\* "while self.running": a further iteration starts
LoopEnter ==
    /\ pc = "loop"
    /\ running
    /\ ticks < MaxTicks
    /\ ticks' = ticks + 1
    /\ pc' = "cmd_start"
    /\ held' = [k \in UntouchedActuators |-> nodes[k]]
    /\ UNCHANGED <<system_state, nodes, running, start_cmd, requests, owed>>

\* "while self.running": the flag is false and the thread ends
LoopExit ==
    /\ pc = "loop"
    /\ ~running
    /\ pc' = "done"
    /\ UNCHANGED <<system_state, nodes, running, start_cmd, ticks, requests, owed, held>>

\* start_cmd = get_value(); if start_cmd > 0
GetStart ==
    /\ pc = "cmd_start"
    /\ LET v == nodes["start_production_command"]
       IN  IF StartRequested(v)
           THEN start_cmd' = v /\ pc' = "act_start"
           ELSE start_cmd' = 0 /\ pc' = "cmd_stop"
    /\ UNCHANGED <<system_state, nodes, running, ticks, requests, owed, held>>

\* variant: the start branch without its set_value(0.0)
ActStart_no_clear ==
    /\ pc = "act_start"
    /\ system_state' = process_start_command(system_state, start_cmd)
    /\ owed' = [owed EXCEPT !["start_production_command"] = @ - 1]
    /\ start_cmd' = 0
    /\ pc' = "cmd_stop"
    /\ UNCHANGED <<nodes, running, ticks, requests, held>>

\* the body of the start branch, ending with set_value(0.0)
ActStart ==
    /\ pc = "act_start"
    /\ system_state' = process_start_command(system_state, start_cmd)
    /\ nodes' = [nodes EXCEPT !["start_production_command"] = 0]
    /\ owed' = [owed EXCEPT !["start_production_command"] = @ - 1]
    /\ start_cmd' = 0
    /\ pc' = "cmd_stop"
    /\ UNCHANGED <<running, ticks, requests, held>>

GetStop ==
    /\ pc = "cmd_stop"
    /\ pc' = IF FlagRequested(nodes["stop_production_command"])
             THEN "act_stop" ELSE "cmd_estop"
    /\ UNCHANGED <<system_state, nodes, running, start_cmd, ticks, requests, owed, held>>

ActStop ==
    /\ pc = "act_stop"
    /\ system_state' = process_stop_command(system_state)
    /\ nodes' = [nodes EXCEPT !["stop_production_command"] = FALSE]
    /\ owed' = [owed EXCEPT !["stop_production_command"] = @ - 1]
    /\ pc' = "cmd_estop"
    /\ UNCHANGED <<running, start_cmd, ticks, requests, held>>

GetEmergency ==
    /\ pc = "cmd_estop"
    /\ pc' = IF FlagRequested(nodes["emergency_stop_command"])
             THEN "act_estop" ELSE "cmd_reset"
    /\ UNCHANGED <<system_state, nodes, running, start_cmd, ticks, requests, owed, held>>

\* variant: an emergency branch that ends the drain, leaving the reset cell
\* for the next tick
ActEmergency_ends_drain ==
    /\ pc = "act_estop"
    /\ system_state' = process_emergency_command(system_state)
    /\ nodes' = [nodes EXCEPT !["emergency_stop_command"] = FALSE]
    /\ owed' = [owed EXCEPT !["emergency_stop_command"] = @ - 1]
    /\ pc' = "sensors"
    /\ UNCHANGED <<running, start_cmd, ticks, requests, held>>

ActEmergency ==
    /\ pc = "act_estop"
    /\ system_state' = process_emergency_command(system_state)
    /\ nodes' = [nodes EXCEPT !["emergency_stop_command"] = FALSE]
    /\ owed' = [owed EXCEPT !["emergency_stop_command"] = @ - 1]
    /\ pc' = "cmd_reset"
    /\ UNCHANGED <<running, start_cmd, ticks, requests, held>>

GetReset ==
    /\ pc = "cmd_reset"
    /\ pc' = IF FlagRequested(nodes["reset_system_command"])
             THEN "act_reset" ELSE "sensors"
    /\ UNCHANGED <<system_state, nodes, running, start_cmd, ticks, requests, owed, held>>

ActReset ==
    /\ pc = "act_reset"
    /\ system_state' = process_reset_command(system_state)
    /\ nodes' = [nodes EXCEPT !["reset_system_command"] = FALSE]
    /\ owed' = [owed EXCEPT !["reset_system_command"] = @ - 1]
    /\ pc' = "sensors"
    /\ UNCHANGED <<running, start_cmd, ticks, requests, held>>

UpdateSensors ==
    /\ pc = "sensors"
    /\ \E n \in NoiseDraws(system_state) :
          system_state' = _update_sensors(system_state, n)
    /\ pc' = "effects"
    /\ UNCHANGED <<nodes, running, start_cmd, ticks, requests, owed, held>>

ProcessActuatorEffects ==
    /\ pc = "effects"
    /\ system_state' = _process_actuator_effects(system_state)
    /\ pc' = "production"
    /\ UNCHANGED <<nodes, running, start_cmd, ticks, requests, owed, held>>

UpdateProduction ==
    /\ pc = "production"
    /\ system_state' = _update_production(system_state)
    /\ pc' = "export"
    /\ UNCHANGED <<nodes, running, start_cmd, ticks, requests, owed, held>>

\* _update_opcua_nodes(), then time.sleep(1.0) and back to the loop test
UpdateNodes ==
    /\ pc = "export"
    /\ nodes' = _update_opcua_nodes(system_state, nodes)
    /\ pc' = "loop"
    /\ UNCHANGED <<system_state, running, start_cmd, ticks, requests, owed, held>>

\* --------------------------------------------- the server's other threads
\* main: the server serves requests from server.start() on, and stops serving
\* when KeyboardInterrupt ends main (stop_simulation, then server.stop())
ServerUp == pc = "created" \/ running

\* A method call: the callback runs on the server's thread, whatever the
\* simulation thread is doing.
CallStartProduction ==
    /\ ServerUp
    /\ requests < MaxRequests
    /\ \E args \in StartArgs :
          system_state' = start_production_callback(system_state, args)
    /\ requests' = requests + 1
    /\ UNCHANGED <<nodes, running, pc, start_cmd, ticks, owed, held>>

CallStopProduction ==
    /\ ServerUp
    /\ requests < MaxRequests
    /\ system_state' = stop_production_callback(system_state)
    /\ requests' = requests + 1
    /\ UNCHANGED <<nodes, running, pc, start_cmd, ticks, owed, held>>

CallEmergencyStop ==
    /\ ServerUp
    /\ requests < MaxRequests
    /\ system_state' = emergency_stop_callback(system_state)
    /\ requests' = requests + 1
    /\ UNCHANGED <<nodes, running, pc, start_cmd, ticks, owed, held>>

CallResetSystem ==
    /\ ServerUp
    /\ requests < MaxRequests
    /\ system_state' = reset_system_callback(system_state)
    /\ requests' = requests + 1
    /\ UNCHANGED <<nodes, running, pc, start_cmd, ticks, owed, held>>

CallCalibrateSensors ==
    /\ ServerUp
    /\ requests < MaxRequests
    /\ \E args \in {<<>>, <<"temperature">>, <<"no_such_sensor">>} :
          system_state' = calibrate_sensors_callback(system_state, args)
    /\ requests' = requests + 1
    /\ UNCHANGED <<nodes, running, pc, start_cmd, ticks, owed, held>>

\* the position of the loop between the read and the clear of a command cell
ActPc(k) ==
    CASE k = "start_production_command" -> "act_start"
      [] k = "stop_production_command" -> "act_stop"
      [] k = "emergency_stop_command" -> "act_estop"
      [] k = "reset_system_command" -> "act_reset"

\* A client's write of a writable node.  A write that takes a command cell
\* from idle to non-idle is a request the drain owes an execution; a write
\* that takes the cell back to idle before the drain has read it withdraws
\* the request.
WriteNode ==
    /\ ServerUp
    /\ requests < MaxRequests
    /\ \E k \in WritableKeys : \E v \in WriteValues(k) :
          /\ nodes' = [nodes EXCEPT ![k] = v]
          /\ owed' =
                IF k \notin CommandKeys THEN owed
                ELSE IF nodes[k] = Idle(k) /\ v # Idle(k)
                     THEN [owed EXCEPT ![k] = @ + 1]
                ELSE IF nodes[k] # Idle(k) /\ v = Idle(k) /\ pc # ActPc(k)
                     THEN [owed EXCEPT ![k] = @ - 1]
                ELSE owed
    /\ requests' = requests + 1
    /\ UNCHANGED <<system_state, running, pc, start_cmd, ticks, held>>

Next ==
    \/ StartSimulation
    \/ StopSimulation
    \/ LoopEnter
    \/ LoopExit
    \/ GetStart
    \/ ActStart
    \/ GetStop
    \/ ActStop
    \/ GetEmergency
    \/ ActEmergency
    \/ GetReset
    \/ ActReset
    \/ UpdateSensors
    \/ ProcessActuatorEffects
    \/ UpdateProduction
    \/ UpdateNodes
    \/ CallStartProduction
    \/ CallStopProduction
    \/ CallEmergencyStop
    \/ CallResetSystem
    \/ CallCalibrateSensors
    \/ WriteNode

Spec == Init /\ [][Next]_vars

\* ------------------------------------------- the loop on a given state
\* In the server as main runs it, no statement gives system_state's
\* heater_power or valve_position another value than the initial one, so
\* under Spec the temperature stays below 28 and the pressure below 1069,
\* and the temperature and pressure tests of _process_actuator_effects are
\* never true.  TickSpec runs the loop alone, as a harness does that sets
\* the attributes of an IndustrialControlSystem and calls the loop's
\* methods: from a ProcessState that is idle, producing or stopped by an
\* emergency stop, with a given heater_power, and with given values in the
\* four command cells.

\* heater_power given: off, enough for the temperature alarm (85 degrees),
\* enough for the hard trip (125 degrees)
HeaterInputs == {0, 120000, 200000}

TickInit ==
    /\ \E base \in {InitialState,
                     start_production_callback(InitialState, <<>>),
                     emergency_stop_callback(InitialState)} :
          \E h \in HeaterInputs :
              system_state = [base EXCEPT !.heater_power = h]
    /\ \E start \in {0, 25000} : \E stop, estop, reset \in BOOLEAN :
          nodes = [_update_opcua_nodes(system_state, InitialNodes) EXCEPT
                      !["start_production_command"] = start,
                      !["stop_production_command"] = stop,
                      !["emergency_stop_command"] = estop,
                      !["reset_system_command"] = reset]
    /\ running = TRUE
    /\ pc = "loop"
    /\ start_cmd = 0
    /\ ticks = 0
    /\ requests = 0
    /\ owed = [k \in CommandKeys |-> IF nodes[k] = Idle(k) THEN 0 ELSE 1]
    /\ held = [k \in UntouchedActuators |-> nodes[k]]

TickNext ==
    \/ LoopEnter
    \/ GetStart
    \/ ActStart
    \/ GetStop
    \/ ActStop
    \/ GetEmergency
    \/ ActEmergency
    \/ GetReset
    \/ ActReset
    \/ UpdateSensors
    \/ ProcessActuatorEffects
    \/ UpdateProduction
    \/ UpdateNodes

TickSpec == TickInit /\ [][TickNext]_vars

\* ------------------------------------------- failures of node operations
\* A get_value or a set_value of a node can raise (the node's store is
\* unavailable), and so, for all the loop knows, can a phase of the tick.
\* FaultSpec runs the loop alone as TickSpec does, with these failures as
\* further steps of the simulation thread, and with stop_simulation.

\* the position of the loop at the read of a command cell
GetPc(k) ==
    CASE k = "start_production_command" -> "cmd_start"
      [] k = "stop_production_command" -> "cmd_stop"
      [] k = "emergency_stop_command" -> "cmd_estop"
      [] k = "reset_system_command" -> "cmd_reset"

\* the assignments of the branch of command cell k; cmd is the local start_cmd
Branch(s, k, cmd) ==
    CASE k = "start_production_command" -> process_start_command(s, cmd)
      [] k = "stop_production_command" -> process_stop_command(s)
      [] k = "emergency_stop_command" -> process_emergency_command(s)
      [] k = "reset_system_command" -> process_reset_command(s)

\* get_value of a command cell raises: the one "except Exception" of
\* _process_commands logs the error, and the drain is over for this tick
GetFails ==
    /\ pc \in {GetPc(k) : k \in CommandKeys}
    /\ pc' = "sensors"
    /\ start_cmd' = 0
    /\ UNCHANGED <<system_state, nodes, running, ticks, requests, owed, held>>

\* variant: a failed clear that undoes the assignments of its branch
ClearFails_rollback ==
    /\ pc \in {ActPc(k) : k \in CommandKeys}
    /\ pc' = "sensors"
    /\ start_cmd' = 0
    /\ UNCHANGED <<system_state, nodes, running, ticks, requests, owed, held>>

\* set_value of a command cell raises: the branch has made its assignments,
\* the cell keeps its value, and the same except clause ends the drain
ClearFails ==
    /\ \E k \in CommandKeys :
          /\ pc = ActPc(k)
          /\ system_state' = Branch(system_state, k, start_cmd)
    /\ pc' = "sensors"
    /\ start_cmd' = 0
    /\ UNCHANGED <<nodes, running, ticks, requests, owed, held>>

\* _update_sensors, _process_actuator_effects or _update_production raises:
\* control passes to the "except Exception" of simulate_process
PhaseFails ==
    /\ pc \in {"sensors", "effects", "production"}
    /\ pc' = "except"
    /\ UNCHANGED <<system_state, nodes, running, start_cmd, ticks, requests, owed, held>>

\* variant: the loop without its except clause: the exception ends the thread
Recover_thread_dies ==
    /\ pc = "except"
    /\ pc' = "done"
    /\ UNCHANGED <<system_state, nodes, running, start_cmd, ticks, requests, owed, held>>

\* the except clause of simulate_process: logging.error, time.sleep(1.0), and
\* back to the loop test
Recover ==
    /\ pc = "except"
    /\ pc' = "loop"
    /\ UNCHANGED <<system_state, nodes, running, start_cmd, ticks, requests, owed, held>>


\* the nodes of self.nodes that have a system_state key, in the order of
\* their creation, which is the order in which _update_opcua_nodes runs
\* through them
NodeOrder ==
    <<"temperature", "pressure", "flow_rate", "tank_level", "vibration",
      "ph_level", "humidity", "motor_speed",
      "pump_enabled", "valve_position", "heater_power", "fan_speed",
      "conveyor_speed", "alarm_active",
      "system_mode", "emergency_stop", "production_rate", "total_production">>

Position(k) == CHOOSE i \in 1..Len(NodeOrder) : NodeOrder[i] = k

\* the sets of nodes whose set_value raises in one export: a sensor node, or
\* two status nodes
ExportFailures == {{"temperature"}, {"system_mode", "production_rate"}}

\* variant: one try around the whole loop: the first failure ends the export
_update_opcua_nodes_failing_aborts(s, nd, bad) ==
    [k \in DOMAIN nd |->
        IF k \in DOMAIN s /\ \A b \in bad : Position(k) < Position(b)
        THEN s[k] ELSE nd[k]]

\* _update_opcua_nodes when set_value raises for the nodes of bad: the try
\* is inside the loop, so the other nodes receive their values
_update_opcua_nodes_failing(s, nd, bad) ==
    [k \in DOMAIN nd |->
        IF k \in DOMAIN s /\ k \notin bad THEN s[k] ELSE nd[k]]

UpdateNodesPartly ==
    /\ pc = "export"
    /\ \E bad \in ExportFailures :
          nodes' = _update_opcua_nodes_failing(system_state, nodes, bad)
    /\ pc' = "loop"
    /\ UNCHANGED <<system_state, running, start_cmd, ticks, requests, owed, held>>

\* the steps of the simulation thread, failures included
ThreadStep ==
    \/ TickNext
    \/ LoopExit
    \/ GetFails
    \/ ClearFails
    \/ PhaseFails
    \/ Recover
    \/ UpdateNodesPartly

FaultNext ==
    \/ ThreadStep
    \/ StopSimulation

FaultSpec == TickInit /\ [][FaultNext]_vars

\* the simulation thread is scheduled again and again, and its sleep ends
FaultLiveSpec == FaultSpec /\ WF_vars(ThreadStep)

\* ----------------------------------------------- the MCP server's write tools
\* src/opcua-mcp-server/opcua-mcp-server.py: write_opcua_node and
\* write_multiple_opcua_nodes, called by an MCP client with texts as values.

\* the Python type of the value get_value() returns for a cell: the type of
\* the value the cell was created with
CellType(k) ==
    IF k \in {"pump_enabled", "alarm_active", "emergency_stop",
              "stop_production_command", "emergency_stop_command",
              "reset_system_command"}
    THEN "bool"
    ELSE IF k = "system_mode" THEN "str" ELSE "float"

\* isinstance(current_value, (int, float)): bool is a subclass of int
IsIntOrFloat(t) == t \in {"float", "bool"}

\* the texts the tools are called with
Texts == {"true", "30.0", " 40 ", "abc", "AUTO"}

\* float(value): surrounding blanks are dropped, a text that is not a number
\* raises ValueError
FloatParses(v) == v \in {"30.0", " 40 "}
Float(v) == CASE v = "30.0" -> 30000 [] v = " 40 " -> 40000

\* The calls modelled: a text to a writable cell.  A number written to a cell
\* created as a boolean is left out: what the OPC UA server does with a
\* Double for a Boolean variable is the library's matter.
McpCells == {"pump_enabled", "emergency_stop_command", "heater_power",
             "start_production_command", "system_mode"}
McpInputs ==
    {in \in McpCells \X Texts :
        ~(CellType(in[1]) = "bool" /\ FloatParses(in[2]))}

\* write_opcua_node: the cells after the call and whether it returned
\* "Successfully wrote ..." (ok) or "Error writing to node ..."
write_opcua_node(nd, k, v) ==
    IF IsIntOrFloat(CellType(k))
    THEN IF FloatParses(v)
         THEN [cells |-> [nd EXCEPT ![k] = Float(v)], ok |-> TRUE]
         ELSE [cells |-> nd, ok |-> FALSE]
    ELSE [cells |-> [nd EXCEPT ![k] = v], ok |-> TRUE]

\* one item of write_multiple_opcua_nodes: the cells after it and whether its
\* status is "Success" (ok) or "Error: ..."
write_item(nd, k, v) ==
    IF IsIntOrFloat(CellType(k))
    THEN IF FloatParses(v)
         THEN [cells |-> [nd EXCEPT ![k] = Float(v)], ok |-> TRUE]
         ELSE [cells |-> nd, ok |-> FALSE]
    ELSE IF CellType(k) = "bool"
    THEN [cells |-> [nd EXCEPT ![k] = (v \in {"true", "1", "yes", "on"})],
          ok |-> TRUE]
    ELSE [cells |-> [nd EXCEPT ![k] = v], ok |-> TRUE]

\* write_multiple_opcua_nodes: the items in their order, each in its own try
RECURSIVE write_multiple_opcua_nodes(_, _)
write_multiple_opcua_nodes(nd, items) ==
    IF items = <<>>
    THEN [cells |-> nd, results |-> <<>>]
    ELSE LET one == write_item(nd, items[1][1], items[1][2])
             rest == write_multiple_opcua_nodes(one.cells, Tail(items))
         IN  [cells |-> rest.cells, results |-> <<one.ok>> \o rest.results]

\* a call of write_opcua_node(k, v) served by the OPC UA server
McpWriteNodeOf(k, v) ==
    /\ ServerUp
    /\ requests < MaxRequests
    /\ nodes' = write_opcua_node(nodes, k, v).cells
    /\ requests' = requests + 1
    /\ UNCHANGED <<system_state, running, pc, start_cmd, ticks, owed, held>>

McpWriteNode == \E in \in McpInputs : McpWriteNodeOf(in[1], in[2])

\* a call of write_multiple_opcua_nodes with the items given
McpWriteMultipleOf(items) ==
    /\ ServerUp
    /\ requests < MaxRequests
    /\ nodes' = write_multiple_opcua_nodes(nodes, items).cells
    /\ requests' = requests + 1
    /\ UNCHANGED <<system_state, running, pc, start_cmd, ticks, owed, held>>

McpWriteMultiple == \E a \in McpInputs, b \in McpInputs : McpWriteMultipleOf(<<a, b>>)

McpNext == McpWriteNode \/ McpWriteMultiple

McpSpec == Init /\ [][McpNext]_vars

\* ====================================================================
\* The claims
\* ====================================================================

\* C1: in every reachable state, emergency_stop implies system_mode =
\* MAINTENANCE, production_rate = 0 and pump_enabled = false.
C1_EmergencyStopInvariant ==
    system_state.emergency_stop =>
        /\ system_state.system_mode = "MAINTENANCE"
        /\ system_state.production_rate = 0
        /\ system_state.pump_enabled = FALSE

\* a step that applies the reset action: the ResetSystem method or the reset
\* branch of the drain
ResetStep == CallResetSystem \/ ActReset

\* C2: a step that takes system_mode away from MAINTENANCE is a reset step
\* and leads to MANUAL (so no step leads from MAINTENANCE to AUTO, and a start
\* or a stop in MAINTENANCE leaves the mode alone).
C2_OnlyResetLeavesMaintenance ==
    [][(/\ system_state.system_mode = "MAINTENANCE"
        /\ system_state'.system_mode # "MAINTENANCE")
          => (ResetStep /\ system_state'.system_mode = "MANUAL")]_vars

C4_ExactlyOnce ==
    \A k \in CommandKeys :
        (nodes[k] = Idle(k) /\ pc # ActPc(k)) => owed[k] = 0

\* a tick is in progress
InTick == pc \notin {"created", "loop", "done"}

\* C5: while a tick is in progress, a step that is not a step of the loop (a
\* method call or a node write) leaves ProcessState unchanged.
C5_LoopIsSoleMutator ==
    [][(InTick /\ pc' = pc) => system_state' = system_state]_vars

\* what one drain step of command cell k makes of ProcessState s when the
\* cell holds v
DrainCell(s, k, v) ==
    CASE k = "start_production_command" ->
            IF StartRequested(v) THEN process_start_command(s, v) ELSE s
      [] k = "stop_production_command" ->
            IF FlagRequested(v) THEN process_stop_command(s) ELSE s
      [] k = "emergency_stop_command" ->
            IF FlagRequested(v) THEN process_emergency_command(s) ELSE s
      [] k = "reset_system_command" ->
            IF FlagRequested(v) THEN process_reset_command(s) ELSE s

\* the value a client writes to start_production_command for a call's
\* arguments: the rate, or the default rate 10.0 of a call without one
CellValueOf(args) == IF Len(args) > 0 THEN args[1] ELSE 10000

\* C6: from every reachable ProcessState, each method yields the ProcessState
\* that writing its command cell and one drain step yield, for every rate
\* argument (a rate <= 0 and an omitted rate included).
C6_DirectEqualsCell ==
    /\ \A args \in StartArgs :
          start_production_callback(system_state, args)
            = DrainCell(system_state, "start_production_command",
                        CellValueOf(args))
    /\ stop_production_callback(system_state)
         = DrainCell(system_state, "stop_production_command", TRUE)
    /\ emergency_stop_callback(system_state)
         = DrainCell(system_state, "emergency_stop_command", TRUE)
    /\ reset_system_callback(system_state)
         = DrainCell(system_state, "reset_system_command", TRUE)

\* C7: a value a client wrote into an actuator cell that no command or
\* interlock touches, and that was in the cell when the tick began, is in the
\* cell and in ProcessState when the tick has completed.
C7_ActuatorRoundTrip ==
    [][(pc = "export" /\ pc' = "loop") =>
          \A k \in UntouchedActuators :
              (held[k] \in WriteValues(k) /\ nodes[k] = held[k]) =>
                  /\ nodes'[k] = held[k]
                  /\ system_state'[k] = held[k]]_vars

\* C8: at the end of every tick valve_position, heater_power, fan_speed,
\* conveyor_speed, tank_level and humidity are within [0,100] and ph_level is
\* within [6,8].
C8_RangesAtTickEnd ==
    [][(pc = "export" /\ pc' = "loop") =>
          /\ \A k \in {"valve_position", "heater_power", "fan_speed",
                        "conveyor_speed", "tank_level", "humidity"} :
                 0 <= system_state'[k] /\ system_state'[k] <= 100000
          /\ 6000 <= system_state'.ph_level
          /\ system_state'.ph_level <= 8000]_vars

\* C9: production_rate is never negative.
C9_RateNonNegative == system_state.production_rate >= 0

\* C10: in every step total_production stays the same or increases, except
\* in a step that applies the reset action, which sets it to 0.
C10_TotalMonotone ==
    [][\/ system_state'.total_production >= system_state.total_production
       \/ (ResetStep /\ system_state'.total_production = 0)]_vars

\* C10 witness: production was accumulated and exported, and a reset then
\* zeroed the total (the cell still shows the accumulated total).
C10_Witness ==
    /\ nodes["total_production"] > 0
    /\ system_state.total_production = 0

\* C11: the accumulator step of a tick adds exactly production_rate / 3600 to
\* total_production (one unit of the model's total per unit of rate) when
\* system_mode = AUTO, emergency_stop is false and production_rate > 0, and
\* leaves total_production unchanged in every other case.
C11_AccumulatorStep ==
    [][(pc = "production" /\ pc' = "export") =>
          system_state'.total_production =
              IF /\ system_state.system_mode = "AUTO"
                 /\ system_state.emergency_stop = FALSE
                 /\ system_state.production_rate > 0
              THEN system_state.total_production + system_state.production_rate
              ELSE system_state.total_production]_vars

\* C11 witness: two uninterrupted ticks in AUTO at the constant rate 25 have
\* raised total_production by 2 * 25 / 3600.
C11_Witness ==
    /\ pc = "loop"
    /\ ticks = 2
    /\ system_state.system_mode = "AUTO"
    /\ system_state.emergency_stop = FALSE
    /\ system_state.production_rate = 25000
    /\ system_state.total_production = 2 * 25000

\* the ProcessStates that the phases of a tick after the drain (sensors,
\* interlock, accumulator) can make of s, one per noise draw
RestOfTick(s) ==
    {_update_production(_process_actuator_effects(_update_sensors(s, n))) :
        n \in NoiseDraws(s)}

\* the rates r > 0 among the inputs: of the calls and of the start cell
StartRates ==
    {r \in {CellValueOf(args) : args \in StartArgs}
              \cup WriteValues("start_production_command") : r > 0}

\* what the claim promises of a start with rate r
StartOutcome(s, r) ==
    /\ s.system_mode = "AUTO"
    /\ s.pump_enabled = TRUE
    /\ s.production_rate = r
    /\ s.conveyor_speed = Min(2 * r, 100000)

\* C12: from every reachable ProcessState in MANUAL, a start with a rate
\* r > 0, by the method or by the drain of start_production_command = r,
\* followed by the rest of the tick, ends the tick with system_mode = AUTO,
\* pump_enabled = true, production_rate = r and
\* conveyor_speed = min(2 * r, 100).
C12_StartFromManual ==
    system_state.system_mode = "MANUAL" =>
        \A r \in StartRates :
            \A t \in {start_production_callback(system_state, <<r>>),
                      DrainCell(system_state, "start_production_command", r)} :
                \A e \in RestOfTick(t) : StartOutcome(e, r)

\* C12 witness: StartProduction(25) was the only request, made in the initial
\* state, and the tick after it has ended with conveyor_speed = 50.
C12_Witness ==
    /\ pc = "loop"
    /\ ticks = 1
    /\ requests = 1
    /\ nodes = _update_opcua_nodes(system_state, InitialNodes)
    /\ StartOutcome(system_state, 25000)
    /\ system_state.conveyor_speed = 50000

\* what the claims promise of an emergency stop
EmergencyOutcome(s) ==
    /\ s.emergency_stop = TRUE
    /\ s.system_mode = "MAINTENANCE"
    /\ s.production_rate = 0
    /\ s.pump_enabled = FALSE
    /\ s.conveyor_speed = 0
    /\ s.heater_power = 0
    /\ s.fan_speed = 0
    /\ s.alarm_active = TRUE

\* C13: from every reachable ProcessState, whatever its mode, the emergency
\* stop by the method and the emergency stop by the drain of
\* emergency_stop_command = true both set emergency_stop = true,
\* system_mode = MAINTENANCE, production_rate = 0, pump_enabled = false,
\* conveyor_speed = 0, heater_power = 0, fan_speed = 0 and alarm_active = true.
C13_EmergencyStopAction ==
    /\ EmergencyOutcome(emergency_stop_callback(system_state))
    /\ EmergencyOutcome(DrainCell(system_state, "emergency_stop_command", TRUE))

\* C13 witness: the drain has just executed an emergency stop command on a
\* system that was producing in AUTO when the previous tick ended.
C13_Witness ==
    /\ pc = "cmd_reset"
    /\ ticks = 2
    /\ nodes["production_rate"] > 0
    /\ nodes["emergency_stop"] = FALSE
    /\ nodes["emergency_stop_command"] = FALSE
    /\ owed["emergency_stop_command"] = 0
    /\ EmergencyOutcome(system_state)

\* a tick has ended and the loop has not begun the next one: the sensor
\* fields are those of the tick's Physical Model step
TickEnded == pc = "loop" /\ ticks > 0

AfterReset(s) ==
    UNION {RestOfTick(t) :
              t \in {reset_system_callback(s),
                     DrainCell(s, "reset_system_command", TRUE)}}

C17_AlarmSticky ==
    [][(system_state.alarm_active /\ ~system_state'.alarm_active)
          => ResetStep]_vars

\* C17 witness: an emergency stop, the only request, raised the alarm before
\* the first tick ended; the second tick has passed its interlock step with
\* no alarm condition holding, and alarm_active is still true.
C17_Witness ==
    /\ pc = "export"
    /\ ticks = 2
    /\ requests = 1
    /\ nodes["system_mode"] = "MAINTENANCE"
    /\ nodes["alarm_active"] = TRUE
    /\ ~AlarmCondition(system_state)
    /\ system_state.alarm_active = TRUE

\* C18: a tick whose sensors, after the Physical Model step, satisfy an alarm
\* condition (temperature > 80, pressure > 1200, tank_level < 10 or
\* vibration > 2) ends with alarm_active = true; and the interlock step
\* does not set alarm_active to true when none of the four conditions holds.
C18_AlarmAtTickEnd ==
    [][/\ (pc = "export" /\ pc' = "loop" /\ AlarmCondition(system_state'))
             => system_state'.alarm_active = TRUE
       /\ (/\ pc = "effects" /\ pc' = "production"
           /\ ~AlarmCondition(system_state)
           /\ system_state.alarm_active = FALSE)
             => system_state'.alarm_active = FALSE]_vars

\* the fields a stop assigns
StopFields ==
    {"production_rate", "system_mode", "pump_enabled", "conveyor_speed"}

\* what the claim promises of a stop that makes t of s
StopOutcome(s, t) ==
    /\ t.production_rate = 0
    /\ t.pump_enabled = FALSE
    /\ t.conveyor_speed = 0
    /\ t.system_mode = "MANUAL"
    /\ \A k \in StateKeys \ StopFields : t[k] = s[k]

\* C19: from every reachable ProcessState in AUTO, the stop by the method and
\* the stop by the drain of stop_production_command = true both set
\* production_rate = 0, pump_enabled = false, conveyor_speed = 0 and
\* system_mode = MANUAL and change no other field.
C19_StopFromAuto ==
    system_state.system_mode = "AUTO" =>
        /\ StopOutcome(system_state, stop_production_callback(system_state))
        /\ StopOutcome(system_state,
                       DrainCell(system_state, "stop_production_command", TRUE))

\* C19 witness: a system that produced in AUTO was stopped: it is idle in
\* MANUAL and the total it accumulated is untouched (a reset would have
\* zeroed it, an emergency stop would have left emergency_stop set).
C19_Witness ==
    /\ system_state.system_mode = "MANUAL"
    /\ system_state.production_rate = 0
    /\ system_state.pump_enabled = FALSE
    /\ system_state.conveyor_speed = 0
    /\ system_state.emergency_stop = FALSE
    /\ system_state.total_production > 0

\* C20: in every reachable state with system_mode = MANUAL and
\* production_rate = 0, the stop (by the method or by the drain) leaves every
\* ProcessState field unchanged.
C20_StopIdempotent ==
    (system_state.system_mode = "MANUAL" /\ system_state.production_rate = 0) =>
        /\ stop_production_callback(system_state) = system_state
        /\ DrainCell(system_state, "stop_production_command", TRUE)
              = system_state

\* C21: an exception raised in a tick's processing does not end the loop:
\* whenever the except clause of the loop is reached (and the model's bound
\* on the number of ticks leaves room for one more), the loop later begins a
\* further tick, unless the running flag has become false.
C21_LoopSurvivesFault ==
    (pc = "except" /\ ticks < MaxTicks) ~> (pc = "cmd_start" \/ ~running)

\* C21 witness: the second tick begins with the flag true after a first tick
\* that ran its Physical Model step and then failed before its export (the
\* motor speed cell still holds the value of before the tick).
C21_Witness ==
    /\ pc = "cmd_start"
    /\ ticks = 2
    /\ running
    /\ nodes["motor_speed"] # system_state.motor_speed

\* C22: once stop_simulation has made the running flag false, the loop
\* eventually exits; no tick starts while the flag is false; and the thread
\* ends only at the loop test, so a tick in flight is not cut short.
C22_CooperativeShutdown ==
    /\ (~running) ~> (pc = "done")
    /\ [][(~running) => ticks' = ticks]_vars
    /\ [][(pc' = "done") => pc \in {"loop", "done"}]_vars

\* C22 witness: the thread has ended after stop_simulation, and the one tick
\* it ran was completed, export included.
C22_Witness ==
    /\ pc = "done"
    /\ ~running
    /\ ticks = 1
    /\ system_state.motor_speed # InitialState.motor_speed
    /\ nodes["motor_speed"] = system_state.motor_speed

\* C23: when the clear of a command cell fails after the cell's action was
\* applied (the loop leaves the cell's branch and the cell is still
\* non-idle), the tick goes on with the Physical Model step, and ProcessState
\* is what the action made of it.
C23_FailedClearKeepsAction ==
    [][\A k \in CommandKeys :
          (pc = ActPc(k) /\ pc' # pc /\ nodes'[k] # Idle(k)) =>
              /\ pc' = "sensors"
              /\ system_state' = DrainCell(system_state, k, nodes[k])]_vars

\* C23 witness: the first tick applied a start command with rate 25, failed
\* to clear its cell, and went on to its end: the rate is in ProcessState and
\* exported, and the cell still holds 25.
C23_Witness ==
    /\ TickEnded
    /\ ticks = 1
    /\ nodes["start_production_command"] = 25000
    /\ system_state.production_rate = 25000
    /\ system_state.system_mode = "AUTO"
    /\ nodes["production_rate"] = 25000
    /\ nodes["motor_speed"] = system_state.motor_speed

\* C24: the export step leaves ProcessState unchanged and copies every
\* ProcessState field into its cell, except the fields whose set_value
\* failed: a failure for one field does not keep any other field's cell from
\* receiving its value (and the command cells are not touched).
C24_ExportBestEffort ==
    [][(pc = "export" /\ pc' = "loop") =>
          /\ system_state' = system_state
          /\ \E bad \in ExportFailures \cup {{}} :
                /\ \A k \in StateKeys \ bad : nodes'[k] = system_state[k]
                /\ \A k \in bad \cup CommandKeys : nodes'[k] = nodes[k]]_vars

\* C24 witness: a tick has ended whose export failed for the temperature
\* cell only: that cell is stale, every other cell holds its field's value.
C24_Witness ==
    /\ TickEnded
    /\ nodes["temperature"] # system_state.temperature
    /\ \A k \in StateKeys \ {"temperature"} : nodes[k] = system_state[k]

C26_WriteCoerces ==
    [][\A in \in McpInputs :
          LET k == in[1]
              v == in[2]
              single == write_opcua_node(nodes, k, v)
              multi == write_multiple_opcua_nodes(nodes, <<in, in>>)
          IN  (McpWriteNodeOf(k, v) \/ McpWriteMultipleOf(<<in, in>>)) =>
                /\ system_state' = system_state
                /\ (CellType(k) = "bool" /\ v = "true") =>
                       (nodes'[k] = TRUE /\ single.ok /\ multi.results[1])
                /\ (CellType(k) = "float" /\ FloatParses(v)) =>
                       (nodes'[k] = Float(v) /\ single.ok /\ multi.results[1])
                /\ (CellType(k) = "float" /\ ~FloatParses(v)) =>
                       (nodes' = nodes /\ ~single.ok /\ ~multi.results[1])]_vars

\* C27: a pending emergency_stop_command is executed in the tick that observes
\* it even when the read or the clear of start_production_command or of
\* stop_production_command fails in that drain: whenever the drain of a tick
\* ends on such a failure while emergency_stop_command is true, the
\* emergency-stop action has been applied to ProcessState (in every tick, so a
\* cell that keeps failing never blocks the emergency stop).
C27_EmergencyDespiteFailure ==
    [][(/\ pc \in {"cmd_start", "act_start", "cmd_stop", "act_stop"}
        /\ pc' = "sensors"
        /\ nodes["emergency_stop_command"] = TRUE) =>
            EmergencyOutcome(system_state')]_vars

\* C28: from the initial state, under any interleaving of ticks, writes to the
\* writable cells and method calls, the hard trip never fires (its condition
\* is false whenever the interlock evaluates it), and emergency_stop goes from
\* false to true only in an emergency-stop action, by the direct call or by
\* the drain of emergency_stop_command; a write of true to the EmergencyStop
\* status cell never does it.
C28_OnlyEmergencyActionStops ==
    /\ [](pc = "effects" => ~TripCondition(system_state))
    /\ [][(~system_state.emergency_stop /\ system_state'.emergency_stop) =>
              (CallEmergencyStop \/ ActEmergency)]_vars

\* C28 witness: a client has written true to the EmergencyStop status cell,
\* the loop has passed the drain, the Physical Model and the interlock of a
\* later tick, and emergency_stop is still false.
C28_Witness ==
    /\ pc = "export"
    /\ ticks = 2
    /\ nodes["emergency_stop"] = TRUE
    /\ system_state.emergency_stop = FALSE
    /\ system_state.system_mode = "MANUAL"

\* the fields a reset assigns
ResetFields ==
    {"emergency_stop", "system_mode", "alarm_active", "total_production"}

CommandOrder ==
    <<"start_production_command", "stop_production_command",
      "emergency_stop_command", "reset_system_command">>

\* the cells the drain has still to handle when the loop is at position p
Remaining(p) ==
    CASE p \in {"cmd_start", "act_start"} -> CommandOrder
      [] p \in {"cmd_stop", "act_stop"} -> SubSeq(CommandOrder, 2, 4)
      [] p \in {"cmd_estop", "act_estop"} -> SubSeq(CommandOrder, 3, 4)
      [] p \in {"cmd_reset", "act_reset"} -> SubSeq(CommandOrder, 4, 4)
      [] OTHER -> <<>>

\* the actions of the cells keys with the values nd holds, applied to s one
\* after the other, each to the ProcessState the previous one left
RECURSIVE InOrder(_, _, _)
InOrder(s, nd, keys) ==
    IF keys = <<>> THEN s
    ELSE InOrder(DrainCell(s, Head(keys), nd[Head(keys)]), nd, Tail(keys))

C31_ExportSparesCommands ==
    /\ [][(pc = "export" /\ pc' = "loop") =>
              \A k \in CommandKeys : nodes'[k] = nodes[k]]_vars
    /\ [][\A k \in CommandKeys :
              nodes'[k] # nodes[k] => (WriteNode \/ pc = ActPc(k))]_vars

\* C31 witness: the drain of the second tick has read reset_system_command
\* true.  The first tick's drain would have consumed a value it had read, so
\* the value was written after that drain read the cell; the first tick's
\* export (its cells show the production started before it) has run since.
C31_Witness ==
    /\ pc = "act_reset"
    /\ ticks = 2
    /\ nodes["reset_system_command"] = TRUE
    /\ owed["reset_system_command"] = 1
    /\ nodes["production_rate"] = 25000
    /\ nodes["system_mode"] = "AUTO"

====
